---- MODULE Spec2Model ----
(***************************************************************************)
(* Hotkey detection and dispatch of improve-writing: the keyboard listener *)
(* thread of start_keyboard_listener (the Poller), the mpsc channel and    *)
(* the consuming loop of run_event_loop (the Application Loop).            *)
(*                                                                         *)
(* Time is counted in whole seconds.  The Poller reads the clock only at   *)
(* the top of its loop (last_rescan.elapsed(), Instant::now()), so the     *)
(* clock is advanced where the Poller sleeps.  The atomic RunningFlag is   *)
(* read and written as one shared variable.                                *)
(***************************************************************************)
EXTENDS Integers, Sequences, FiniteSets, TLC

\* ---------------------------------------------------------------- bounds
MaxDevices == 2     \* keyboards returned by one enumeration
MaxSent == 2        \* tx.send calls in one behaviour
MaxTime == 20       \* last second the clock reaches
TimeStep == 5       \* seconds the clock may advance during one sleep
MaxMods == 2        \* modifier tokens in one hotkey string
MaxEntries == 2     \* entries of /dev/input in one listing
MaxText == 3        \* characters of a text sent to or returned by Ollama

\* ------------------------------------------------------------- constants
RESCAN_INTERVAL == 10
EAGAIN == 11
EWOULDBLOCK == 11
ATTEMPTS == 3

\* ------------------------------------------------------------ data model
DefaultModifiers == [shift |-> FALSE, ctrl |-> FALSE, alt |-> FALSE]

Mods(s, c, a) == [shift |-> s, ctrl |-> c, alt |-> a]

ShiftKeys == {"KEY_LEFTSHIFT", "KEY_RIGHTSHIFT"}
CtrlKeys == {"KEY_LEFTCTRL", "KEY_RIGHTCTRL"}
AltKeys == {"KEY_LEFTALT", "KEY_RIGHTALT"}
ModifierKeys == ShiftKeys \cup CtrlKeys \cup AltKeys

MkHotkey(k, m) == [key |-> k, modifiers |-> m]

\* Hotkeys the command line can configure (parse_hotkey results).
MainHotkeys ==
    { MkHotkey("KEY_F8", DefaultModifiers),
      MkHotkey("KEY_F8", Mods(TRUE, FALSE, FALSE)),
      MkHotkey("KEY_F9", Mods(FALSE, TRUE, TRUE)) }

\* Option<Hotkey>: {} is None, {h} is Some(h).
ShowOriginalHotkeys ==
    { {},
      {MkHotkey("KEY_F8", Mods(TRUE, FALSE, FALSE))},
      {MkHotkey("KEY_F8", DefaultModifiers)},
      {MkHotkey("KEY_F9", Mods(FALSE, FALSE, TRUE))} }

\* Input events a device delivers: key events carry value 0 (release),
\* 1 (press) or 2 (auto-repeat); every other event kind is "Syn".
KeyEv(k, v) == [kind |-> "Key", key |-> k, value |-> v]
SynEv == [kind |-> "Syn", key |-> "NONE", value |-> 0]
NoEv == [kind |-> "None", key |-> "NONE", value |-> 0]

AllKeys == ModifierKeys \cup {"KEY_F8", "KEY_F9"}
InputEvents == {KeyEv(k, v) : k \in AllKeys, v \in {0, 1, 2}} \cup {SynEv}
FewEvents ==
    { KeyEv("KEY_LEFTSHIFT", 1), KeyEv("KEY_LEFTSHIFT", 0), KeyEv("KEY_F8", 1) }

\* A device handle: the enumeration that opened it and its position.
Handle(g, i) == [gen |-> g, idx |-> i]
Opened(g, n) == [i \in 1..n |-> Handle(g, i)]

RangeAfterFirst(s) == {s[i] : i \in 2..Len(s)}

Range(s) == {s[i] : i \in 1..Len(s)}

IsPrefix(s, t) == Len(s) <= Len(t) /\ \A i \in 1..Len(s) : s[i] = t[i]

VARIABLES
    hotkey,                 \* main hotkey (Improve)
    show_original_hotkey,   \* Option<Hotkey> (ImproveShowOriginal)
    running,                \* RunningFlag
    chan,                   \* messages queued in the mpsc channel
    tx_alive,               \* the Sender (owned by the listener thread) exists
    rx_alive,               \* the Receiver (owned by run_event_loop) exists
    keyboards,              \* device handles the listener owns
    nonblocking,            \* handles with O_NONBLOCK set
    current_mods,           \* Modifiers tracked by the listener
    last_rescan,            \* Instant of listener start or of the last rescan
    had_error,              \* a read error awaits a rescan
    any_error,              \* a read error happened in this iteration
    ppc,                    \* listener position: top, fetch, events, sleep, stopped
    dev,                    \* index of the device being read
    now,                    \* the clock, in seconds
    apc,                    \* run_event_loop position: top, recv, dispatch, exited
    gen,                    \* successful enumerations so far (handle identity)
    sent,                   \* history: every message passed to tx.send
    received,               \* history: every message recv_timeout returned
    dispatched,             \* history: number of completed dispatches
    lastRecv,               \* history: what the latest recv_timeout returned
    lastEv,                 \* history: the input event processed last in this batch
    lastRead,               \* history: outcome of the latest fetch_events
    errorAt,                \* history: when had_error last became true (-1: never)
    enumAt,                 \* history: times of the find_keyboards calls
    held,                   \* history: physical modifier keys pressed, not released
    modsAtRescan,           \* history: current_mods just before the last successful rescan
    pollAfterStop,          \* history: listener iterations ended with RunningFlag false
    recvAfterStop,          \* history: recv_timeout calls begun with RunningFlag false
    key_arg,                \* the string handed to parse_hotkey
    parsed,                 \* what parse_hotkey returned
    dev_input,              \* the /dev/input listing find_keyboards reads
    scanned,                \* what find_keyboards returned
    user_text,              \* the text handed to send_chat
    attempt,                \* the attempt send_chat is at
    last_error,             \* Option: the error of the latest failed attempt
    chat_result,            \* what send_chat returned
    chat_log,               \* history: the requests sent and the sleeps
    cpc                     \* send_chat position: idle, start, request, done

vars == << hotkey, show_original_hotkey, running, chan, tx_alive, rx_alive,
           keyboards, nonblocking, current_mods, last_rescan, had_error,
           any_error, ppc, dev, now, apc, gen, sent, received, dispatched,
           lastRecv,
           lastEv, lastRead, errorAt, enumAt, held, modsAtRescan,
           pollAfterStop, recvAfterStop, key_arg, parsed, dev_input,
           scanned, user_text, attempt, last_error, chat_result, chat_log,
           cpc >>

cfgVars == << hotkey, show_original_hotkey >>
appVars == << apc, received, dispatched, rx_alive, lastRecv, recvAfterStop >>
devVars == << keyboards, nonblocking, gen, modsAtRescan >>
errVars == << had_error, any_error, errorAt >>
clockVars == << now, last_rescan, enumAt >>
chatVars == << user_text, attempt, last_error, chat_result, chat_log, cpc >>
callVars == << key_arg, parsed, dev_input, scanned, chatVars >>

\* ------------------------------------------------------ modifier tracker
\* One arm of the match on the key: the new value of a modifier whose left
\* or right key produced an event with this value.
ModAfterSticky(cur, value) == value = 1 \/ cur

ModAfter(cur, value) ==
    LET pressed == value = 1
        released == value = 0
        assigned == pressed \/ (~released /\ cur)
    IN  IF released THEN FALSE ELSE assigned

UpdateMods(mods, key, value) ==
    IF key \in ShiftKeys THEN [mods EXCEPT !.shift = ModAfter(mods.shift, value)]
    ELSE IF key \in CtrlKeys THEN [mods EXCEPT !.ctrl = ModAfter(mods.ctrl, value)]
    ELSE IF key \in AltKeys THEN [mods EXCEPT !.alt = ModAfter(mods.alt, value)]
    ELSE mods

\* Only key events reach the tracker (if let InputEventKind::Key(key)).
TrackedMods(mods, e) ==
    IF e.kind = "Key" THEN UpdateMods(mods, e.key, e.value) ELSE mods

\* ------------------------------------------------------- chord matching
ModsMatchSubset(cur, req) ==
    /\ req.shift => cur.shift
    /\ req.ctrl => cur.ctrl
    /\ req.alt => cur.alt

ModsMatch(cur, req) ==
    /\ cur.shift = req.shift
    /\ cur.ctrl = req.ctrl
    /\ cur.alt = req.alt

\* The messages one key event makes the listener send: the show-original
\* hotkey is checked first and ends the handling of the event (continue).
EmittedMainFirst(key, value, mods) ==
    LET pressed == value = 1
    IN  IF key = hotkey.key /\ pressed /\ ModsMatch(mods, hotkey.modifiers)
        THEN << "Improve" >>
        ELSE IF \E so \in show_original_hotkey :
                    key = so.key /\ pressed /\ ModsMatch(mods, so.modifiers)
             THEN << "ImproveShowOriginal" >>
             ELSE << >>

EmittedOnRepeat(key, value, mods) ==
    LET pressed == value # 0
    IN  IF \E so \in show_original_hotkey :
               key = so.key /\ pressed /\ ModsMatch(mods, so.modifiers)
        THEN << "ImproveShowOriginal" >>
        ELSE IF key = hotkey.key /\ pressed /\ ModsMatch(mods, hotkey.modifiers)
             THEN << "Improve" >>
             ELSE << >>

Emitted(key, value, mods) ==
    LET pressed == value = 1
    IN  IF \E so \in show_original_hotkey :
               key = so.key /\ pressed /\ ModsMatch(mods, so.modifiers)
        THEN << "ImproveShowOriginal" >>
        ELSE IF key = hotkey.key /\ pressed /\ ModsMatch(mods, hotkey.modifiers)
             THEN << "Improve" >>
             ELSE << >>

\* ---------------------------------------------------------- the channel
\* tx.send: appends at the back; with the Receiver gone it fails and the
\* listener ignores the failure.
SendLifo(q, alive, msgs) == IF alive THEN msgs \o q ELSE q

SendDedup(q, alive, msgs) ==
    IF alive /\ (q = << >> \/ msgs = << >> \/ q[Len(q)] # msgs[1])
    THEN q \o msgs
    ELSE q

Send(q, alive, msgs) == IF alive THEN q \o msgs ELSE q

\* ---------------------------------------------------------- parse_hotkey
\* A &str is a sequence of one-character strings.
LowerCase ==
    << "a", "b", "c", "d", "e", "f", "g", "h", "i", "j", "k", "l", "m",
       "n", "o", "p", "q", "r", "s", "t", "u", "v", "w", "x", "y", "z" >>

UpperCase ==
    << "A", "B", "C", "D", "E", "F", "G", "H", "I", "J", "K", "L", "M",
       "N", "O", "P", "Q", "R", "S", "T", "U", "V", "W", "X", "Y", "Z" >>

ToUpperChar(c) ==
    IF \E i \in 1..Len(LowerCase) : LowerCase[i] = c
    THEN UpperCase[CHOOSE i \in 1..Len(LowerCase) : LowerCase[i] = c]
    ELSE c

\* str::to_uppercase
ToUppercase(s) == [i \in 1..Len(s) |-> ToUpperChar(s[i])]

\* s.split('+').collect(): the pieces between the plus signs, from
\* position i on, cur being the piece begun.
RECURSIVE SplitFrom(_, _, _)
SplitFrom(s, i, cur) ==
    IF i > Len(s) THEN << cur >>
    ELSE IF s[i] = "+" THEN << cur >> \o SplitFrom(s, i + 1, << >>)
    ELSE SplitFrom(s, i + 1, Append(cur, s[i]))

Split(s) == SplitFrom(s, 1, << >>)

\* Result<Hotkey>: Ok(hotkey), or Err(anyhow!("<error>: {}", token)).
NoHotkey == MkHotkey("NONE", DefaultModifiers)
NotParsed == [status |-> "none", hotkey |-> NoHotkey, token |-> << >>]
ParseOk(h) == [status |-> "Ok", hotkey |-> h, token |-> << >>]
ParseErr(msg, tok) == [status |-> msg, hotkey |-> NoHotkey, token |-> tok]

\* The arms of the match on the upper-cased modifier token.
SHIFT == << "S", "H", "I", "F", "T" >>
CTRL == << "C", "T", "R", "L" >>
CONTROL == << "C", "O", "N", "T", "R", "O", "L" >>
ALT == << "A", "L", "T" >>

\* The modifier a token sets: "none" is the arm that returns the error.
ModifierArmFirstLetter(upper) ==
    IF upper = << >> THEN "none"
    ELSE IF upper[1] = "S" THEN "shift"
    ELSE IF upper[1] = "C" THEN "ctrl"
    ELSE IF upper[1] = "A" THEN "alt"
    ELSE "none"

ModifierArm(upper) ==
    IF upper = SHIFT THEN "shift"
    ELSE IF upper \in {CTRL, CONTROL} THEN "ctrl"
    ELSE IF upper = ALT THEN "alt"
    ELSE "none"

\* for part in &parts[..parts.len() - 1], from part i on.
RECURSIVE ParseModifiers(_, _, _)
ParseModifiers(parts, i, modifiers) ==
    IF i > Len(parts) - 1
    THEN ParseOk(MkHotkey("NONE", modifiers))
    ELSE LET arm == ModifierArm(ToUppercase(parts[i]))
         IN  IF arm = "none"
             THEN ParseErr("Unknown modifier", parts[i])
             ELSE ParseModifiers(parts, i + 1, [modifiers EXCEPT ![arm] = TRUE])

\* The arms of the match on the upper-cased key token.
FunctionKeys ==
    { << << "F", "1" >>, "KEY_F1" >>, << << "F", "2" >>, "KEY_F2" >>,
      << << "F", "3" >>, "KEY_F3" >>, << << "F", "4" >>, "KEY_F4" >>,
      << << "F", "5" >>, "KEY_F5" >>, << << "F", "6" >>, "KEY_F6" >>,
      << << "F", "7" >>, "KEY_F7" >>, << << "F", "8" >>, "KEY_F8" >>,
      << << "F", "9" >>, "KEY_F9" >>, << << "F", "1", "0" >>, "KEY_F10" >>,
      << << "F", "1", "1" >>, "KEY_F11" >>, << << "F", "1", "2" >>, "KEY_F12" >> }

NamedKeys ==
    { << << "S", "C", "R", "O", "L", "L", "L", "O", "C", "K" >>, "KEY_SCROLLLOCK" >>,
      << << "P", "A", "U", "S", "E" >>, "KEY_PAUSE" >>,
      << << "I", "N", "S", "E", "R", "T" >>, "KEY_INSERT" >> }

KeyArmsFunctionOnly == FunctionKeys

KeyArms == FunctionKeys \cup NamedKeys

ParseHotkey(s) ==
    LET parts == Split(s)
        mods == IF Len(parts) = 1
                THEN ParseOk(MkHotkey("NONE", DefaultModifiers))
                ELSE ParseModifiers(parts, 1, DefaultModifiers)
        key_str == parts[Len(parts)]
        upper == ToUppercase(key_str)
    IN  IF mods.status # "Ok" THEN mods
        ELSE IF \E arm \in KeyArms : arm[1] = upper
             THEN ParseOk(MkHotkey((CHOOSE arm \in KeyArms : arm[1] = upper)[2],
                                   mods.hotkey.modifiers))
             ELSE ParseErr("Unknown key", key_str)

\* -------------------------------------------------------- find_keyboards
\* One entry of /dev/input: whether reading the entry succeeds, its file
\* name (NonUtf8: to_str() gives None), whether Device::open succeeds and
\* what supported_keys() gives ({} is None, {ks} is Some(ks)).
DirEntry(r, n, o, k) == [readable |-> r, name |-> n, opens |-> o, keys |-> k]

EventPrefix == << "e", "v", "e", "n", "t" >>
NonUtf8 == << "?" >>

FileNames ==
    { << "e", "v", "e", "n", "t", "0" >>, << "m", "i", "c", "e" >>, NonUtf8 }

SupportedKeys == { {}, {{"BTN_LEFT"}}, {{"KEY_A", "KEY_F8"}} }

DirEntries ==
    { DirEntry(r, n, o, k) :
        r \in BOOLEAN, n \in FileNames, o \in BOOLEAN, k \in SupportedKeys }

\* n.starts_with("event"), false for a name that is not UTF-8.
StartsWithEvent(name) == name # NonUtf8 /\ IsPrefix(EventPrefix, name)

\* supported_keys().map(|keys| keys.contains(Key::KEY_A)).unwrap_or(false)
SupportsKeyA(keys) == \E ks \in keys : "KEY_A" \in ks

\* Result<Vec<Device>>: the devices are named by their place in the listing.
NotScanned == [status |-> "none", devices |-> << >>]
ScanOk(kbs) == [status |-> "Ok", devices |-> kbs]
ScanErr(msg) == [status |-> msg, devices |-> << >>]

\* The end of find_keyboards: if keyboards.is_empty().
ScanResultAlwaysOk(kbs) == ScanOk(kbs)

ScanResult(kbs) ==
    IF kbs = << >> THEN ScanErr("No keyboards found") ELSE ScanOk(kbs)

\* The for loop over the entries, from entry i on, kbs being found so far.
RECURSIVE ScanFrom(_, _, _)
ScanFrom(entries, i, kbs) ==
    IF i > Len(entries) THEN ScanResult(kbs)
    ELSE LET entry == entries[i]
         IN  IF ~entry.readable THEN ScanErr("io::Error")
             ELSE IF ~StartsWithEvent(entry.name) THEN ScanFrom(entries, i + 1, kbs)
             ELSE IF entry.opens /\ SupportsKeyA(entry.keys)
                  THEN ScanFrom(entries, i + 1, Append(kbs, i))
                  ELSE ScanFrom(entries, i + 1, kbs)

\* /dev/input: whether read_dir succeeds, and its entries.
DevInput(r, es) == [readable |-> r, entries |-> es]

FindKeyboards(d) ==
    IF ~d.readable THEN ScanErr("io::Error") ELSE ScanFrom(d.entries, 1, << >>)

\* --------------------------------------------------------------- send_chat
\* str::trim: the text without the whitespace at its two ends.
Whitespace == {" ", "\t", "\n"}

RECURSIVE TrimStart(_)
TrimStart(s) ==
    IF s # << >> /\ Head(s) \in Whitespace THEN TrimStart(Tail(s)) ELSE s

RECURSIVE TrimEnd(_)
TrimEnd(s) ==
    IF s # << >> /\ s[Len(s)] \in Whitespace
    THEN TrimEnd(SubSeq(s, 1, Len(s) - 1))
    ELSE s

Trim(s) == TrimEnd(TrimStart(s))

\* Result<String>: Ok(text), or the error of the last attempt in context.
NoChatResult == [status |-> "none", text |-> << >>, source |-> "none"]
ChatOk(text) == [status |-> "Ok", text |-> text, source |-> "none"]

ChatErr(e) ==
    [status |-> "All Ollama retry attempts failed", text |-> << >>, source |-> e]

\* History: a request with its outcome, a sleep with its seconds.
Requested(ok, content, e) ==
    [ev |-> "request", ok |-> ok, content |-> content, error |-> e, secs |-> 0]

Slept(secs) ==
    [ev |-> "sleep", ok |-> FALSE, content |-> << >>, error |-> "none",
     secs |-> secs]

\* if attempt < 3, after a failed attempt.
SleepsAfterAlways(n) == TRUE

SleepsAfter(n) == n < ATTEMPTS

\* send_chat not called.
NoChat ==
    /\ user_text = << >>
    /\ attempt = 0
    /\ last_error = {}
    /\ chat_result = NoChatResult
    /\ chat_log = << >>
    /\ cpc = "idle"

\* parse_hotkey and find_keyboards not called.
NoParse == key_arg = << >> /\ parsed = NotParsed

NoScan == dev_input = DevInput(TRUE, << >>) /\ scanned = NotScanned

\* ------------------------------------------------------------------ Init
\* The state after run_event_loop has created the channel and spawned the
\* listener, for a main hotkey among H and a show-original hotkey among S.
InitWith(H, S) ==
    /\ hotkey \in H
    /\ show_original_hotkey \in S
    /\ running = TRUE
    /\ chan = << >>
    /\ tx_alive = TRUE
    /\ rx_alive = TRUE
    /\ \E n \in 1..MaxDevices : keyboards = Opened(0, n)
    /\ nonblocking = Range(keyboards)
    /\ current_mods = DefaultModifiers
    /\ last_rescan = 0
    /\ had_error = FALSE
    /\ any_error = FALSE
    /\ ppc = "top"
    /\ dev = 0
    /\ now = 0
    /\ apc = "top"
    /\ gen = 0
    /\ sent = << >>
    /\ received = << >>
    /\ dispatched = 0
    /\ lastRecv = "none"
    /\ lastEv = NoEv
    /\ lastRead = "none"
    /\ errorAt = -1
    /\ enumAt = << >>
    /\ held = {}
    /\ modsAtRescan = DefaultModifiers
    /\ pollAfterStop = 0
    /\ recvAfterStop = 0

\* History counters count to two: none, one, more than one.
Counted(n) == IF n < 2 THEN n + 1 ELSE n

\* running.load(Ordering::Relaxed), the condition of both while loops.
LoadStale(flag) == TRUE

Load(flag) == flag

\* ------------------------------------------------- the listener thread
\* What Device::fetch_events returns: Ok(events), or an io::Error whose
\* raw_os_error() is Some(code) ({code}) or None ({}).
ReadErrors == {"EAGAIN", "ENODEV", "Other"}

RawOsError(res) ==
    CASE res = "EAGAIN" -> {EAGAIN}
      [] res = "ENODEV" -> {19}
      [] OTHER -> {}

\* The test of the Err arm: everything but EAGAIN/EWOULDBLOCK is an error.
IsReadErrorAlways(raw) == TRUE

IsReadError(raw) == raw # {EAGAIN} /\ raw # {EWOULDBLOCK}

\* The rescan condition at the top of the listener loop.
RescanDueWithoutError(err, elapsed) == elapsed >= RESCAN_INTERVAL

RescanDueNoWait(err, elapsed) == err

RescanDue(err, elapsed) == err /\ elapsed >= RESCAN_INTERVAL

\* last_rescan after a failed find_keyboards at time t.
StampAfterFailKept(t, old) == old

StampAfterFail(t, old) == t

\* Modifier state after a successful rescan.
RescanModsKept(mods) == mods

RescanMods(mods) == DefaultModifiers

\* had_error at the end of an iteration.
ErrorAfter(had, any) == IF any THEN TRUE ELSE had

\* The for loop over keyboards: on to the next device, or to the sleep.
NextDevice ==
    IF dev < Len(keyboards)
    THEN /\ dev' = dev + 1
         /\ ppc' = "fetch"
    ELSE /\ dev' = 0
         /\ ppc' = "sleep"

\* Into the for loop from the top of the while loop.
EnterIteration(kbs) ==
    /\ any_error' = FALSE
    /\ IF Len(kbs) > 0
       THEN dev' = 1 /\ ppc' = "fetch"
       ELSE dev' = 0 /\ ppc' = "sleep"

\* The closure returns and drops the Sender and the devices, were the
\* loop to end without the flag being read.
PollerStopAnytime ==
    /\ ppc = "top"
    /\ ppc' = "stopped"
    /\ tx_alive' = FALSE
    /\ keyboards' = << >>
    /\ nonblocking' = {}
    /\ UNCHANGED << callVars, cfgVars, appVars, clockVars, errVars, running,
                    chan, gen, current_mods, dev, sent, lastEv, lastRead, held,
                    modsAtRescan, pollAfterStop >>

\* while running.load(): the flag reads false, the closure returns and
\* drops the Sender and the devices.
PollerStop ==
    /\ ppc = "top"
    /\ ~Load(running)
    /\ ppc' = "stopped"
    /\ tx_alive' = FALSE
    /\ keyboards' = << >>
    /\ nonblocking' = {}
    /\ UNCHANGED << callVars, cfgVars, appVars, clockVars, errVars, running, chan, gen,
                    current_mods, dev, sent, lastEv, lastRead, held,
                    modsAtRescan, pollAfterStop >>

\* Top of the loop, no rescan due.
PollerLoop ==
    /\ ppc = "top"
    /\ Load(running)
    /\ ~RescanDue(had_error, now - last_rescan)
    /\ EnterIteration(keyboards)
    /\ UNCHANGED << callVars, cfgVars, appVars, clockVars, devVars, had_error, errorAt,
                    running, chan, tx_alive, current_mods, sent, lastEv,
                    lastRead, held, pollAfterStop >>

\* Top of the loop, rescan due, find_keyboards returns n devices.
PollerRescanOk(n) ==
    /\ ppc = "top"
    /\ Load(running)
    /\ RescanDue(had_error, now - last_rescan)
    /\ keyboards' = Opened(gen + 1, n)
    /\ gen' = gen + 1
    /\ nonblocking' = Range(keyboards')
    /\ current_mods' = RescanMods(current_mods)
    /\ modsAtRescan' = current_mods
    /\ had_error' = FALSE
    /\ errorAt' = -1
    /\ last_rescan' = now
    /\ enumAt' = Append(enumAt, now)
    /\ EnterIteration(keyboards')
    /\ UNCHANGED << callVars, cfgVars, appVars, running, chan, tx_alive, now, sent,
                    lastEv, lastRead, held, pollAfterStop >>

\* Top of the loop, rescan due, find_keyboards fails.
PollerRescanFail ==
    /\ ppc = "top"
    /\ Load(running)
    /\ RescanDue(had_error, now - last_rescan)
    /\ last_rescan' = StampAfterFail(now, last_rescan)
    /\ enumAt' = Append(enumAt, now)
    /\ EnterIteration(keyboards)
    /\ UNCHANGED << callVars, cfgVars, appVars, devVars, running, chan, tx_alive, now,
                    current_mods, had_error, errorAt, sent, lastEv, lastRead,
                    held, pollAfterStop >>

\* device.fetch_events() returns Ok(events).
PollerFetchOk ==
    /\ ppc = "fetch"
    /\ ppc' = "events"
    /\ lastRead' = "Ok"
    /\ lastEv' = NoEv
    /\ UNCHANGED << callVars, cfgVars, appVars, clockVars, devVars, errVars, running,
                    chan, tx_alive, current_mods, dev, sent, held,
                    pollAfterStop >>

\* device.fetch_events() returns Err(e), were an error to end the thread.
PollerFetchErrFatal(res) ==
    /\ ppc = "fetch"
    /\ lastRead' = res
    /\ any_error' = (any_error \/ IsReadError(RawOsError(res)))
    /\ IF IsReadError(RawOsError(res))
       THEN ppc' = "stopped" /\ dev' = 0 /\ tx_alive' = FALSE
       ELSE NextDevice /\ tx_alive' = tx_alive
    /\ UNCHANGED << callVars, cfgVars, appVars, clockVars, devVars, had_error,
                    errorAt, running, chan, current_mods, sent, lastEv, held,
                    pollAfterStop >>

\* device.fetch_events() returns Err(e), were an error to break the for loop.
PollerFetchErrBreak(res) ==
    /\ ppc = "fetch"
    /\ lastRead' = res
    /\ any_error' = (any_error \/ IsReadError(RawOsError(res)))
    /\ IF IsReadError(RawOsError(res))
       THEN ppc' = "sleep" /\ dev' = 0
       ELSE NextDevice
    /\ UNCHANGED << callVars, cfgVars, appVars, clockVars, devVars, had_error,
                    errorAt, running, chan, tx_alive, current_mods, sent,
                    lastEv, held, pollAfterStop >>

\* device.fetch_events() returns Err(e).
PollerFetchErr(res) ==
    /\ ppc = "fetch"
    /\ lastRead' = res
    /\ any_error' = (any_error \/ IsReadError(RawOsError(res)))
    /\ NextDevice
    /\ UNCHANGED << callVars, cfgVars, appVars, clockVars, devVars, had_error, errorAt,
                    running, chan, tx_alive, current_mods, sent, lastEv, held,
                    pollAfterStop >>

\* History only: the physical modifier keys down according to the events.
HeldAfter(h, e) ==
    IF e.kind = "Key" /\ e.key \in ModifierKeys
    THEN IF e.value = 1 THEN h \cup {e.key}
         ELSE IF e.value = 0 THEN h \ {e.key}
         ELSE h
    ELSE h

\* One event of the batch, were a failed send to end the thread.
PollerEventStopOnSendError(e) ==
    /\ ppc = "events"
    /\ LET mods == TrackedMods(current_mods, e)
           out == IF e.kind = "Key" THEN Emitted(e.key, e.value, mods) ELSE << >>
       IN  /\ Len(sent) + Len(out) <= MaxSent
           /\ current_mods' = mods
           /\ chan' = Send(chan, rx_alive, out)
           /\ sent' = sent \o out
           /\ IF out # << >> /\ ~rx_alive
              THEN ppc' = "stopped" /\ tx_alive' = FALSE
              ELSE UNCHANGED << ppc, tx_alive >>
    /\ lastEv' = e
    /\ UNCHANGED << callVars, cfgVars, appVars, clockVars, devVars, errVars,
                    running, dev, lastRead, held, pollAfterStop >>

\* One event of the batch: modifier tracking, then the hotkey checks.
PollerEvent(e) ==
    /\ ppc = "events"
    /\ LET mods == TrackedMods(current_mods, e)
           out == IF e.kind = "Key" THEN Emitted(e.key, e.value, mods) ELSE << >>
       IN  /\ Len(sent) + Len(out) <= MaxSent
           /\ current_mods' = mods
           /\ chan' = Send(chan, rx_alive, out)
           /\ sent' = sent \o out
    /\ lastEv' = e
    /\ UNCHANGED << callVars, cfgVars, appVars, clockVars, devVars, errVars, running,
                    tx_alive, ppc, dev, lastRead, held, pollAfterStop >>

\* The batch is exhausted.
PollerEndBatch ==
    /\ ppc = "events"
    /\ lastEv' = NoEv
    /\ NextDevice
    /\ UNCHANGED << callVars, cfgVars, appVars, clockVars, devVars, errVars, running,
                    chan, tx_alive, current_mods, sent, lastRead, held,
                    pollAfterStop >>

\* End of the iteration: had_error is updated and the thread sleeps, the
\* clock advancing by d seconds meanwhile.
PollerSleep(d) ==
    /\ ppc = "sleep"
    /\ now + d <= MaxTime
    /\ had_error' = ErrorAfter(had_error, any_error)
    /\ errorAt' = IF ~had_error /\ had_error' THEN now ELSE errorAt
    /\ now' = now + d
    /\ ppc' = "top"
    /\ lastRead' = "none"
    /\ pollAfterStop' = IF running THEN pollAfterStop ELSE Counted(pollAfterStop)
    /\ UNCHANGED << callVars, cfgVars, appVars, devVars, any_error, last_rescan, enumAt,
                    running, chan, tx_alive, current_mods, dev, sent, lastEv,
                    held >>

\* ---------------------------------------------------- the event loop
\* rx.recv_timeout: the message at the front and what stays queued.
RecvFront(q) == Head(q)

RecvRestKept(q) == q

RecvRest(q) == Tail(q)

\* while running.load(): the flag reads true, recv_timeout is called.
AppLoop ==
    /\ apc = "top"
    /\ Load(running)
    /\ apc' = "recv"
    /\ UNCHANGED lastRecv
    /\ UNCHANGED << callVars, cfgVars, clockVars, devVars, errVars, running, chan,
                    tx_alive, rx_alive, current_mods, ppc, dev, sent, received,
                    dispatched, lastEv, lastRead, held, pollAfterStop,
                    recvAfterStop >>

\* while running.load(): the flag reads false, run_event_loop returns Ok
\* and drops the Receiver.
AppExit ==
    /\ apc = "top"
    /\ ~Load(running)
    /\ apc' = "exited"
    /\ rx_alive' = FALSE
    /\ UNCHANGED lastRecv
    /\ UNCHANGED << callVars, cfgVars, clockVars, devVars, errVars, running, chan,
                    tx_alive, current_mods, ppc, dev, sent, received,
                    dispatched, lastEv, lastRead, held, pollAfterStop,
                    recvAfterStop >>

\* recv_timeout returns Ok(event).
AppRecvEvent ==
    /\ apc = "recv"
    /\ chan # << >>
    /\ received' = Append(received, RecvFront(chan))
    /\ chan' = RecvRest(chan)
    /\ apc' = "dispatch"
    /\ recvAfterStop' = IF running THEN recvAfterStop ELSE Counted(recvAfterStop)
    /\ lastRecv' = "Event"
    /\ UNCHANGED << callVars, cfgVars, clockVars, devVars, errVars, running, tx_alive,
                    rx_alive, current_mods, ppc, dev, sent, dispatched, lastEv,
                    lastRead, held, pollAfterStop >>

\* recv_timeout returns Err(Timeout): nothing queued, the Sender exists.
AppRecvTimeout ==
    /\ apc = "recv"
    /\ chan = << >>
    /\ tx_alive
    /\ apc' = "top"
    /\ recvAfterStop' = IF running THEN recvAfterStop ELSE Counted(recvAfterStop)
    /\ lastRecv' = "Timeout"
    /\ UNCHANGED << callVars, cfgVars, clockVars, devVars, errVars, running, chan,
                    tx_alive, rx_alive, current_mods, ppc, dev, sent, received,
                    dispatched, lastEv, lastRead, held, pollAfterStop >>

\* recv_timeout returns Err(Disconnected), were the loop to go on.
AppRecvDisconnectedSpin ==
    /\ apc = "recv"
    /\ chan = << >>
    /\ ~tx_alive
    /\ apc' = "top"
    /\ recvAfterStop' = IF running THEN recvAfterStop ELSE Counted(recvAfterStop)
    /\ lastRecv' = "Disconnected"
    /\ UNCHANGED << callVars, cfgVars, clockVars, devVars, errVars, running,
                    chan, tx_alive, rx_alive, current_mods, ppc, dev, sent,
                    received, dispatched, lastEv, lastRead, held,
                    pollAfterStop >>

\* recv_timeout returns Err(Disconnected): nothing queued, the Sender
\* dropped; the loop breaks and run_event_loop returns Ok.
AppRecvDisconnected ==
    /\ apc = "recv"
    /\ chan = << >>
    /\ ~tx_alive
    /\ apc' = "exited"
    /\ rx_alive' = FALSE
    /\ recvAfterStop' = IF running THEN recvAfterStop ELSE Counted(recvAfterStop)
    /\ lastRecv' = "Disconnected"
    /\ UNCHANGED << callVars, cfgVars, clockVars, devVars, errVars, running, chan,
                    tx_alive, current_mods, ppc, dev, sent, received,
                    dispatched, lastEv, lastRead, held, pollAfterStop >>

\* The Ok(event) arm: selection, clipboard, Ollama and typing, whatever
\* their outcome, end in the next loop iteration.
AppDispatch ==
    /\ apc = "dispatch"
    /\ dispatched' = dispatched + 1
    /\ apc' = "top"
    /\ UNCHANGED lastRecv
    /\ UNCHANGED << callVars, cfgVars, clockVars, devVars, errVars, running, chan,
                    tx_alive, rx_alive, current_mods, ppc, dev, sent, received,
                    lastEv, lastRead, held, pollAfterStop, recvAfterStop >>

\* The Ctrl+C handler stores false in the RunningFlag.
Shutdown ==
    /\ running
    /\ running' = FALSE
    /\ UNCHANGED << callVars, cfgVars, appVars, clockVars, devVars, errVars, chan,
                    tx_alive, current_mods, ppc, dev, sent, lastEv, lastRead,
                    held, pollAfterStop >>

\* ------------------------------------------- the tracker on its own
\* The modifier tracking of one key event applied to the tracked state,
\* with the physical keys the event stream leaves down kept as history.
TrackerStep(e) ==
    /\ current_mods' = TrackedMods(current_mods, e)
    /\ held' = HeldAfter(held, e)
    /\ lastEv' = e
    /\ UNCHANGED << callVars, cfgVars, appVars, clockVars, devVars, errVars, running,
                    chan, tx_alive, ppc, dev, sent, lastRead, pollAfterStop >>

\* -------------------------------------------------------- specifications
PollerTop ==
    \/ PollerStop
    \/ PollerLoop
    \/ \E n \in 1..MaxDevices : PollerRescanOk(n)
    \/ PollerRescanFail

PollerRead ==
    \/ PollerFetchOk
    \/ \E res \in ReadErrors : PollerFetchErr(res)

PollerKeys == \E e \in FewEvents : PollerEvent(e)

PollerNap == \E d \in {0, TimeStep} : PollerSleep(d)

PollerNext ==
    \/ PollerTop
    \/ PollerRead
    \/ PollerKeys
    \/ PollerEndBatch
    \/ PollerNap

AppNext ==
    \/ AppLoop
    \/ AppExit
    \/ AppRecvEvent
    \/ AppRecvTimeout
    \/ AppRecvDisconnected
    \/ AppDispatch

Next ==
    \/ PollerNext
    \/ AppNext
    \/ Shutdown

\* The default command line: F8, and Shift+F8 or no show-original hotkey.
Init ==
    /\ InitWith({MkHotkey("KEY_F8", DefaultModifiers)},
                {{}, {MkHotkey("KEY_F8", Mods(TRUE, FALSE, FALSE))}})
    /\ NoParse
    /\ NoScan
    /\ NoChat

Spec == Init /\ [][Next]_vars

\* The listener thread on healthy devices, for every configured pair of
\* hotkeys and every input event.
InitKeys ==
    InitWith(MainHotkeys, ShowOriginalHotkeys) /\ NoParse /\ NoScan /\ NoChat

PollerAllKeys == \E e \in InputEvents : PollerEvent(e)

PollerShortNap == PollerSleep(0)

NextKeys ==
    \/ PollerLoop
    \/ PollerFetchOk
    \/ PollerAllKeys
    \/ PollerEndBatch
    \/ PollerShortNap

SpecKeys == InitKeys /\ [][NextKeys]_vars

\* Both threads for as long as no rescan falls due (the clock stands
\* still), each thread scheduled again and again, every batch finite.
PollerNextLive ==
    \/ PollerStop
    \/ PollerLoop
    \/ PollerRead
    \/ PollerKeys
    \/ PollerEndBatch
    \/ PollerShortNap

NextLive ==
    \/ PollerNextLive
    \/ AppNext
    \/ Shutdown

SpecLive ==
    /\ Init
    /\ [][NextLive]_vars
    /\ WF_vars(PollerNextLive)
    /\ WF_vars(PollerEndBatch)
    /\ WF_vars(AppNext)

\* The modifier tracker applied to every stream of input events.
NextTracker == \E e \in InputEvents : TrackerStep(e)

SpecTracker == Init /\ [][NextTracker]_vars

\* Everything the listener and the event loop read or write.
loopVars ==
    << cfgVars, appVars, clockVars, devVars, errVars, running, chan, tx_alive,
       current_mods, ppc, dev, sent, lastEv, lastRead, held, pollAfterStop >>

\* Before the threads start: one keyboard, the default hotkey.
InitStartup ==
    /\ InitWith({MkHotkey("KEY_F8", DefaultModifiers)}, {{}})
    /\ Len(keyboards) = 1

\* Sequences of at most n members of S.
SeqsUpTo(S, n) == UNION {[1..m -> S] : m \in 0..n}

\* The tokens joined by plus signs.
RECURSIVE Join(_)
Join(tokens) ==
    IF Len(tokens) = 1 THEN tokens[1]
    ELSE tokens[1] \o << "+" >> \o Join(Tail(tokens))

\* Tokens tried before the last plus sign and after it.
ModTokens ==
    { << "S", "h", "i", "f", "t" >>, << "C", "t", "r", "l" >>,
      << "c", "o", "n", "t", "r", "o", "l" >>, << "A", "l", "t" >>,
      << "F", "o", "o" >>, << "S", "u", "p", "e", "r" >>, << >> }

KeyTokens ==
    {arm[1] : arm \in FunctionKeys} \cup
    { << "f", "8" >>, << "S", "c", "r", "o", "l", "l", "L", "o", "c", "k" >>,
      << "P", "A", "U", "S", "E" >>, << "i", "n", "s", "e", "r", "t" >>,
      << "A" >>, << "a" >>, << "7" >>, << "F", "1", "3" >>, << >>,
      << "S", "h", "i", "f", "t" >> }

HotkeyStrings ==
    {Join(ms \o << k >>) : ms \in SeqsUpTo(ModTokens, MaxMods), k \in KeyTokens}

\* parse_hotkey(s) returns.
CallParseHotkey ==
    /\ parsed = NotParsed
    /\ parsed' = ParseHotkey(key_arg)
    /\ UNCHANGED << loopVars, chatVars, key_arg, dev_input, scanned >>

InitParse ==
    /\ InitStartup
    /\ NoScan
    /\ NoChat
    /\ key_arg \in HotkeyStrings
    /\ parsed = NotParsed

NextParse == CallParseHotkey

SpecParse == InitParse /\ [][NextParse]_vars

\* find_keyboards() returns.
CallFindKeyboards ==
    /\ scanned = NotScanned
    /\ scanned' = FindKeyboards(dev_input)
    /\ UNCHANGED << loopVars, chatVars, key_arg, parsed, dev_input >>

InitScan ==
    /\ InitStartup
    /\ NoParse
    /\ NoChat
    /\ \/ dev_input = DevInput(FALSE, << >>)
       \/ \E es \in SeqsUpTo(DirEntries, MaxEntries) :
             dev_input = DevInput(TRUE, es)
    /\ scanned = NotScanned

NextScan == CallFindKeyboards

SpecScan == InitScan /\ [][NextScan]_vars

\* if user_text.trim().is_empty() { return Ok(String::new()) }
ChatReturnEmpty ==
    /\ cpc = "start"
    /\ Trim(user_text) = << >>
    /\ chat_result' = ChatOk(<< >>)
    /\ cpc' = "done"
    /\ UNCHANGED << loopVars, key_arg, parsed, dev_input, scanned, user_text,
                    attempt, last_error, chat_log >>

\* The request is built and the for loop entered: attempt 1.
ChatFirstAttempt ==
    /\ cpc = "start"
    /\ Trim(user_text) # << >>
    /\ attempt' = 1
    /\ last_error' = {}
    /\ cpc' = "request"
    /\ UNCHANGED << loopVars, key_arg, parsed, dev_input, scanned, user_text,
                    chat_result, chat_log >>

\* send_chat_messages returns Ok(response): the trimmed content is returned.
ChatAttemptOk(content) ==
    /\ cpc = "request"
    /\ chat_log' = Append(chat_log, Requested(TRUE, content, "none"))
    /\ chat_result' = ChatOk(Trim(content))
    /\ cpc' = "done"
    /\ UNCHANGED << loopVars, key_arg, parsed, dev_input, scanned, user_text,
                    attempt, last_error >>

\* send_chat_messages returns Err(e): the error is kept, the task sleeps
\* if an attempt is left, and after the last attempt the error is returned.
ChatAttemptErr(e) ==
    /\ cpc = "request"
    /\ last_error' = {e}
    /\ LET logged == Append(chat_log, Requested(FALSE, << >>, e))
       IN  chat_log' = IF SleepsAfter(attempt)
                       THEN Append(logged, Slept(1))
                       ELSE logged
    /\ IF attempt < ATTEMPTS
       THEN /\ attempt' = attempt + 1
            /\ UNCHANGED << cpc, chat_result >>
       ELSE /\ cpc' = "done"
            /\ chat_result' = ChatErr(CHOOSE x \in last_error' : TRUE)
            /\ UNCHANGED attempt
    /\ UNCHANGED << loopVars, key_arg, parsed, dev_input, scanned, user_text >>

\* The texts selected and the contents Ollama answers with; the errors
\* send_chat_messages fails with.
Texts == SeqsUpTo({" ", "\n", "a"}, MaxText)

ChatErrors == {"connection closed", "timed out"}

InitChat ==
    /\ InitStartup
    /\ NoParse
    /\ NoScan
    /\ user_text \in Texts
    /\ attempt = 0
    /\ last_error = {}
    /\ chat_result = NoChatResult
    /\ chat_log = << >>
    /\ cpc = "start"

NextChat ==
    \/ ChatReturnEmpty
    \/ ChatFirstAttempt
    \/ \E content \in Texts : ChatAttemptOk(content)
    \/ \E e \in ChatErrors : ChatAttemptErr(e)

SpecChat == InitChat /\ [][NextChat]_vars

\* ================================================================ claims
\* A step of the listener that handles input event e.
IsEventStep(e) == ppc = "events" /\ ppc' = "events" /\ lastEv' = e

\* A step in which find_keyboards is called.
IsEnumCall == Len(enumAt') > Len(enumAt)

\* The moment the cooldown is counted from: the listener start or the
\* latest find_keyboards call.
LastStamp == IF enumAt = << >> THEN 0 ELSE enumAt[Len(enumAt)]

\* A step in which recv_timeout returns.
IsRecvReturn == apc = "recv" /\ apc' # "recv"

\* A step in which fetch_events returns.
IsFetchStep == ppc = "fetch" /\ (ppc' # "fetch" \/ dev' # dev)

\* A step that takes the listener from the top of its loop into an iteration.
IsLoopEntry == ppc = "top" /\ ppc' \in {"fetch", "sleep"}

\* The tracked boolean a modifier key belongs to.
ModFlag(mods, k) ==
    IF k \in ShiftKeys THEN mods.shift
    ELSE IF k \in CtrlKeys THEN mods.ctrl
    ELSE mods.alt

F8 == MkHotkey("KEY_F8", DefaultModifiers)
ShiftF8 == MkHotkey("KEY_F8", Mods(TRUE, FALSE, FALSE))

\* C1 as stated: a press of a chord's trigger key sends exactly one event,
\* the chord's own, when the tracked modifiers equal the chord's modifier
\* set, and no event of that chord when they differ.
C1_OwnEventOnExactMatch ==
    [][\A e \in InputEvents :
          (IsEventStep(e) /\ e.kind = "Key" /\ e.value = 1) =>
             /\ e.key = hotkey.key =>
                   IF current_mods' = hotkey.modifiers
                   THEN sent' = Append(sent, "Improve")
                   ELSE sent' \in {sent, Append(sent, "ImproveShowOriginal")}
             /\ \A so \in show_original_hotkey :
                   e.key = so.key =>
                      IF current_mods' = so.modifiers
                      THEN sent' = Append(sent, "ImproveShowOriginal")
                      ELSE sent' \in {sent, Append(sent, "Improve")}]_vars

\* C1 amended: as C1, except that a main hotkey registered with the key
\* and the modifier set of the show-original hotkey never gets its own
\* event: the one event sent is ImproveShowOriginal.
C1_ExactMatchOneEvent ==
    [][\A e \in InputEvents :
          (IsEventStep(e) /\ e.kind = "Key" /\ e.value = 1) =>
             /\ e.key = hotkey.key =>
                   IF current_mods' = hotkey.modifiers
                   THEN IF hotkey \in show_original_hotkey
                        THEN sent' = Append(sent, "ImproveShowOriginal")
                        ELSE sent' = Append(sent, "Improve")
                   ELSE sent' \in {sent, Append(sent, "ImproveShowOriginal")}
             /\ \A so \in show_original_hotkey :
                   e.key = so.key =>
                      IF current_mods' = so.modifiers
                      THEN sent' = Append(sent, "ImproveShowOriginal")
                      ELSE sent' \in {sent, Append(sent, "Improve")}]_vars

C1_Witness ==
    /\ hotkey = F8
    /\ show_original_hotkey = {ShiftF8}
    /\ lastEv = KeyEv("KEY_F8", 1)
    /\ current_mods = Mods(TRUE, FALSE, FALSE)
    /\ sent = << "Improve", "ImproveShowOriginal" >>
    /\ chan = sent

\* C2: after the tracker handles a release of the left or right key of a
\* modifier that modifier reads false, whatever was pressed before; after
\* a press of either key it reads true.
C2_ReleaseClearsPressSets ==
    \A k \in ModifierKeys :
       /\ lastEv = KeyEv(k, 0) => ~ModFlag(current_mods, k)
       /\ lastEv = KeyEv(k, 1) => ModFlag(current_mods, k)

C2_Witness ==
    /\ lastEv = KeyEv("KEY_LEFTSHIFT", 0)
    /\ "KEY_RIGHTSHIFT" \in held
    /\ ~current_mods.shift

\* C3: a successful rescan leaves every modifier false, and afterwards a
\* modifier reads true only once the listener has handled a press of one
\* of its keys, so a chord that needs it cannot fire before.
C3_RescanResetsModifiers ==
    [][/\ gen' # gen => current_mods' = DefaultModifiers
       /\ \A name \in {"shift", "ctrl", "alt"} :
             (~current_mods[name] /\ current_mods'[name]) =>
                \E k \in ModifierKeys :
                   /\ IsEventStep(KeyEv(k, 1))
                   /\ ModFlag([shift |-> name = "shift", ctrl |-> name = "ctrl",
                               alt |-> name = "alt"], k)
       /\ \A so \in show_original_hotkey :
             sent' = Append(sent, "ImproveShowOriginal") =>
                current_mods' = so.modifiers]_vars

C3_Witness ==
    /\ gen > 0
    /\ modsAtRescan.shift
    /\ show_original_hotkey = {ShiftF8}
    /\ lastEv = KeyEv("KEY_F8", 1)
    /\ current_mods = DefaultModifiers
    /\ sent # << >>
    /\ sent[Len(sent)] = "Improve"

\* C4: the event loop receives the events in the order the listener sent
\* them: what has been received is always the front of what has been sent.
C4_ReceivedInSendOrder == IsPrefix(received, sent)

C4_Witness ==
    /\ received = << "ImproveShowOriginal", "Improve" >>
    /\ apc = "dispatch"
    /\ dispatched = 1

\* C5: no event is dropped or sent twice between the two loops: what is
\* sent is what has been received plus what is queued, every receive is
\* dispatched once, and while the RunningFlag stays true the k-th send is
\* followed by the k-th dispatch.
C5_EverySendDispatched ==
    /\ [](rx_alive => received \o chan = sent)
    /\ [](dispatched = Len(received) - (IF apc = "dispatch" THEN 1 ELSE 0))
    /\ \A k \in 1..MaxSent :
          (Len(sent) >= k) ~> (dispatched >= k \/ ~running)

C5_Witness ==
    /\ running
    /\ sent = << "Improve", "Improve" >>
    /\ dispatched = 2

\* C6: once the RunningFlag is false both loops terminate: the listener
\* ends at most the iteration it is in and then stops, the event loop
\* returns from at most one more recv_timeout and then exits, and neither
\* runs forever.
C6_ShutdownObserved ==
    /\ [](pollAfterStop <= 1 /\ recvAfterStop <= 1)
    /\ (~running) ~> (ppc = "stopped" /\ apc = "exited")

C6_Witness ==
    /\ ~running
    /\ ppc = "stopped"
    /\ apc = "exited"
    /\ pollAfterStop = 1
    /\ recvAfterStop = 1

\* C7 as stated: with nothing sent that has not been received, recv_timeout
\* returns Timeout.
C7_OnlyTimeoutWhenNothingSent ==
    [][(IsRecvReturn /\ Len(received) = Len(sent)) =>
          (lastRecv' = "Timeout" /\ received' = received)]_vars

\* C7 amended: with nothing sent that has not been received, recv_timeout
\* returns no event: it returns Timeout, or Disconnected once the listener
\* has stopped and dropped the Sender; otherwise it returns the oldest
\* event not received yet.
C7_NoSpuriousEvent ==
    [][IsRecvReturn =>
          IF Len(received) = Len(sent)
          THEN /\ received' = received
               /\ \/ lastRecv' = "Timeout"
                  \/ lastRecv' = "Disconnected" /\ ppc = "stopped"
          ELSE /\ lastRecv' = "Event"
               /\ received' = Append(received, sent[Len(received) + 1])]_vars

C7_Witness ==
    /\ lastRecv = "Timeout"
    /\ Len(sent) = 1
    /\ received = sent
    /\ dispatched = 1
    /\ apc = "top"

\* C8: a read that fails with EAGAIN/EWOULDBLOCK changes neither error
\* flag and leads to no rescan; a read that fails otherwise sets any_error,
\* and had_error is true when that iteration ends; the flags are set in no
\* other way.
C8_WouldBlockIsNoError ==
    [][/\ (IsFetchStep /\ lastRead' = "EAGAIN") =>
             UNCHANGED << any_error, had_error, enumAt >>
       /\ (IsFetchStep /\ lastRead' \in {"ENODEV", "Other"}) => any_error'
       /\ (ppc = "sleep" /\ ppc' = "top" /\ any_error) => had_error'
       /\ (~any_error /\ any_error') =>
             (IsFetchStep /\ lastRead' \in {"ENODEV", "Other"})
       /\ (~had_error /\ had_error') => any_error]_vars

C8_Witness ==
    /\ Len(keyboards) = 1
    /\ ppc = "sleep"
    /\ lastRead = "EAGAIN"
    /\ ~any_error
    /\ ~had_error

\* C9 as stated: find_keyboards is not called before the full cooldown has
\* passed since had_error became true.
C9_CooldownSinceError ==
    [][IsEnumCall => now - errorAt >= RESCAN_INTERVAL]_vars

\* C9 amended: the cooldown runs from the listener start or the latest
\* find_keyboards call, not from the error: find_keyboards is called only
\* with had_error set and the cooldown passed since that moment, and then
\* at the first loop top, however recent the error.
C9_CooldownSinceLastRescan ==
    [][/\ IsEnumCall => (had_error /\ now - LastStamp >= RESCAN_INTERVAL)
       /\ (IsLoopEntry /\ had_error /\ now - LastStamp >= RESCAN_INTERVAL) =>
             IsEnumCall]_vars

C9_Witness ==
    /\ enumAt # << >>
    /\ had_error
    /\ errorAt = enumAt[Len(enumAt)]
    /\ errorAt > RESCAN_INTERVAL

\* C10: a failed find_keyboards leaves the devices, the modifiers and
\* had_error as they were, and the next call comes no sooner than one
\* cooldown later, at the first loop top from then on.
C10_FailedRescanRetriesAfterCooldown ==
    [][/\ (IsEnumCall /\ gen' = gen) =>
             /\ UNCHANGED << keyboards, nonblocking, current_mods >>
             /\ had_error /\ had_error'
       /\ (IsEnumCall /\ enumAt # << >>) =>
             now - enumAt[Len(enumAt)] >= RESCAN_INTERVAL
       /\ (IsLoopEntry /\ had_error /\ enumAt # << >>
             /\ now - enumAt[Len(enumAt)] >= RESCAN_INTERVAL) => IsEnumCall]_vars

C10_Witness ==
    /\ Len(enumAt) = 2
    /\ gen = 0
    /\ had_error
    /\ current_mods.shift

\* A press that is an exact match for both hotkeys, registered alike.
IsDuplicateMatch(e) ==
    /\ IsEventStep(e)
    /\ e.kind = "Key"
    /\ e.value = 1
    /\ hotkey \in show_original_hotkey
    /\ e.key = hotkey.key
    /\ current_mods' = hotkey.modifiers

\* C11 as stated: a press that matches the main hotkey (index 0) and a
\* show-original hotkey (index 1) registered with the same key and the
\* same modifiers sends one event, Improve, the first-registered chord's.
C11_FirstRegisteredWins ==
    [][\A e \in InputEvents :
          IsDuplicateMatch(e) => sent' = Append(sent, "Improve")]_vars

\* C11 amended: such a press sends one event, ImproveShowOriginal: the
\* show-original hotkey is checked before the main hotkey.
C11_ShowOriginalWins ==
    [][\A e \in InputEvents :
          IsDuplicateMatch(e) =>
             sent' = Append(sent, "ImproveShowOriginal")]_vars

C11_Witness ==
    /\ hotkey = F8
    /\ show_original_hotkey = {F8}
    /\ lastEv = KeyEv("KEY_F8", 1)
    /\ current_mods = DefaultModifiers
    /\ sent = << "ImproveShowOriginal" >>

\* C12: a key event that is not a press (a release, value 0, or an
\* auto-repeat, value 2) sends no event, whatever the modifiers and the
\* key, and an auto-repeat leaves every modifier as it was; an event is
\* sent only in the handling of a press.
C12_OnlyPressesSend ==
    [][/\ \A e \in InputEvents :
             (IsEventStep(e) /\ (e.kind # "Key" \/ e.value # 1)) =>
                /\ sent' = sent
                /\ chan' = chan
                /\ (e.value = 2 => current_mods' = current_mods)
       /\ sent' # sent =>
             \E k \in AllKeys : IsEventStep(KeyEv(k, 1))]_vars

C12_Witness ==
    /\ hotkey = ShiftF8
    /\ lastEv = KeyEv("KEY_F8", 2)
    /\ current_mods = hotkey.modifiers
    /\ sent = << >>

\* A step of the listener thread in which it handles input event e.
IsHandled(e) == ppc = "events" /\ lastEv' = e /\ UNCHANGED << apc, running >>

\* A step in which fetch_events returns an error.
IsFailedRead == IsFetchStep /\ lastRead' \in ReadErrors

\* A step in which the listener thread ends.
IsListenerExit == ppc # "stopped" /\ ppc' = "stopped"

\* C13: a failed device read queues and sends nothing, does not end the
\* listener and does not drop the Sender (both happen only with the
\* RunningFlag false); while the listener is in or after an iteration with
\* an error, recv_timeout returns Timeout or the oldest event sent and not
\* yet received, never Disconnected.
C13_ReadErrorStaysInListener ==
    [][/\ IsFailedRead =>
             /\ UNCHANGED << chan, sent, tx_alive >>
             /\ ppc' # "stopped"
       /\ (IsListenerExit \/ (tx_alive /\ ~tx_alive')) => ~running
       /\ (IsRecvReturn /\ (had_error \/ any_error) /\ ppc # "stopped") =>
             \/ lastRecv' = "Timeout" /\ received' = received
             \/ /\ lastRecv' = "Event"
                /\ Len(received) < Len(sent)
                /\ received' = Append(received, sent[Len(received) + 1])]_vars

C13_Witness ==
    /\ running
    /\ had_error
    /\ any_error
    /\ lastRead = "ENODEV"
    /\ tx_alive
    /\ lastRecv = "Timeout"
    /\ received = << "Improve" >>

\* C14: after Timeout the event loop is back at the top of its while loop
\* with nothing dispatched; after Disconnected run_event_loop has returned,
\* and from then on it receives and dispatches nothing; a dispatch follows
\* only a received event.
C14_TimeoutLoopsDisconnectedExits ==
    [][/\ (IsRecvReturn /\ lastRecv' = "Timeout") =>
             (apc' = "top" /\ rx_alive' /\ dispatched' = dispatched)
       /\ (IsRecvReturn /\ lastRecv' = "Disconnected") =>
             (apc' = "exited" /\ ~rx_alive' /\ dispatched' = dispatched)
       /\ (IsRecvReturn /\ chan = << >>) =>
             lastRecv' = IF tx_alive THEN "Timeout" ELSE "Disconnected"
       /\ apc = "exited" => UNCHANGED appVars
       /\ dispatched' # dispatched =>
             (apc = "dispatch" /\ lastRecv = "Event")]_vars

C14_Witness ==
    /\ lastRecv = "Disconnected"
    /\ apc = "exited"
    /\ ~rx_alive
    /\ Len(received) = 1
    /\ dispatched = 1

\* C15: an event handled with the Receiver gone changes nothing but the
\* tracked modifiers: the failed send queues nothing, the listener stays
\* in its batch with its devices, its error flags and its Sender, and the
\* thread ends only at the top of its loop with the RunningFlag false.
C15_FailedSendIgnored ==
    [][/\ \A e \in FewEvents :
             (IsHandled(e) /\ ~rx_alive) =>
                /\ ppc' = "events"
                /\ chan' = chan
                /\ current_mods' = TrackedMods(current_mods, e)
                /\ UNCHANGED << keyboards, nonblocking, dev, tx_alive, running,
                                had_error, any_error, last_rescan >>
       /\ (IsListenerExit \/ (tx_alive /\ ~tx_alive')) =>
             (ppc = "top" /\ ~running)
       /\ (ppc = "events" /\ ppc' # "events") => ppc' \in {"fetch", "sleep"}]_vars

C15_Witness ==
    /\ ~rx_alive
    /\ ppc = "events"
    /\ lastEv = KeyEv("KEY_LEFTSHIFT", 1)
    /\ current_mods.shift
    /\ sent = << "Improve" >>
    /\ chan = << >>
    /\ received = << >>

\* An entry find_keyboards is to keep: an event file that opens and
\* reports KEY_A among its keys.
Qualifies(entry) ==
    /\ entry.readable
    /\ entry.name = << "e", "v", "e", "n", "t", "0" >>
    /\ entry.opens
    /\ entry.keys = {{"KEY_A", "KEY_F8"}}

Qualifying ==
    {i \in 1..Len(dev_input.entries) : Qualifies(dev_input.entries[i])}

\* /dev/input and each of its entries could be read.
Listed ==
    /\ dev_input.readable
    /\ \A i \in 1..Len(dev_input.entries) : dev_input.entries[i].readable

\* What Ok(devices) holds: the qualifying entries, each once, in order.
ReturnsQualifying ==
    /\ scanned.status = "Ok"
    /\ {scanned.devices[i] : i \in 1..Len(scanned.devices)} = Qualifying
    /\ Len(scanned.devices) = Cardinality(Qualifying)

\* C16 as stated: Ok comes with at least one device, all qualifying;
\* entries that do not qualify are skipped without failing the scan; with
\* no qualifying device the result is the no-keyboards error.
C16_NoKeyboardsWheneverNoneQualifies ==
    scanned # NotScanned =>
       /\ scanned.status = "Ok" => (scanned.devices # << >> /\ ReturnsQualifying)
       /\ (Listed /\ Qualifying # {}) => ReturnsQualifying
       /\ Qualifying = {} => scanned = ScanErr("No keyboards found")

\* C16 amended: the same, the no-keyboards error being the result when
\* /dev/input and all its entries could be read and no device qualifies;
\* when /dev/input or an entry cannot be read the result is that I/O error.
C16_NeverEmptySuccess ==
    scanned # NotScanned =>
       /\ scanned.status = "Ok" => (scanned.devices # << >> /\ ReturnsQualifying)
       /\ (Listed /\ Qualifying # {}) => ReturnsQualifying
       /\ (Listed /\ Qualifying = {}) => scanned = ScanErr("No keyboards found")
       /\ ~Listed => scanned = ScanErr("io::Error")

C16_Witness ==
    /\ Len(dev_input.entries) = 2
    /\ dev_input.entries[1].readable
    /\ StartsWithEvent(dev_input.entries[1].name)
    /\ ~dev_input.entries[1].opens
    /\ scanned = ScanOk(<< 2 >>)

\* The spellings tried for each modifier and each key.
ShiftSpellings == { << "S", "h", "i", "f", "t" >> }
CtrlSpellings == { << "C", "t", "r", "l" >>, << "c", "o", "n", "t", "r", "o", "l" >> }
AltSpellings == { << "A", "l", "t" >> }
ModifierSpellings == ShiftSpellings \cup CtrlSpellings \cup AltSpellings

SpelledKeys ==
    FunctionKeys \cup
    { << << "f", "8" >>, "KEY_F8" >>,
      << << "S", "c", "r", "o", "l", "l", "L", "o", "c", "k" >>, "KEY_SCROLLLOCK" >>,
      << << "P", "A", "U", "S", "E" >>, "KEY_PAUSE" >>,
      << << "i", "n", "s", "e", "r", "t" >>, "KEY_INSERT" >> }

LettersAndDigits == { << "A" >>, << "a" >>, << "7" >> }

\* The tokens of the string parsed: those before the last plus sign, and
\* the one after it.
ModParts ==
    LET parts == Split(key_arg) IN SubSeq(parts, 1, Len(parts) - 1)

KeyPart == LET parts == Split(key_arg) IN parts[Len(parts)]

\* C17: with every token before the last a modifier name, in any case,
\* a chord returned has exactly the named modifiers true and the key the
\* last token spells; otherwise the result is the unknown-modifier error
\* with the first unknown token as written.
C17_ExactlyNamedModifiers ==
    parsed # NotParsed =>
       LET unknown == {i \in 1..Len(ModParts) : ModParts[i] \notin ModifierSpellings}
           named == {ModParts[i] : i \in 1..Len(ModParts)}
       IN  IF unknown # {}
           THEN parsed = ParseErr("Unknown modifier",
                            ModParts[CHOOSE i \in unknown : \A j \in unknown : i <= j])
           ELSE /\ parsed.status \in {"Ok", "Unknown key"}
                /\ (\E arm \in SpelledKeys : arm[1] = KeyPart) => parsed.status = "Ok"
                /\ parsed.status = "Ok" =>
                      /\ parsed.hotkey.modifiers =
                            [shift |-> named \cap ShiftSpellings # {},
                             ctrl |-> named \cap CtrlSpellings # {},
                             alt |-> named \cap AltSpellings # {}]
                      /\ << KeyPart, parsed.hotkey.key >> \in SpelledKeys

C17_Witness ==
    /\ key_arg = << "C", "t", "r", "l", "+", "A", "l", "t", "+", "F", "1" >>
    /\ parsed = ParseOk(MkHotkey("KEY_F1", Mods(FALSE, TRUE, TRUE)))

\* C18 as stated: with the modifiers known, F1..F12, SCROLLLOCK, PAUSE,
\* INSERT, the letters and the digits are accepted as key in any case, and
\* every other key token gives the unknown-key error with the token.
C18_LettersAndDigitsAccepted ==
    (parsed # NotParsed /\ parsed.status # "Unknown modifier") =>
       IF \E arm \in SpelledKeys : arm[1] = KeyPart
       THEN parsed.status = "Ok" /\ << KeyPart, parsed.hotkey.key >> \in SpelledKeys
       ELSE IF KeyPart \in LettersAndDigits
            THEN parsed.status = "Ok"
            ELSE parsed = ParseErr("Unknown key", KeyPart)

\* C18 amended: F1..F12, SCROLLLOCK, PAUSE and INSERT are accepted as key
\* in any case; every other key token, a letter or a digit included, gives
\* the unknown-key error with the token as written.
C18_FunctionAndNamedKeysOnly ==
    (parsed # NotParsed /\ parsed.status # "Unknown modifier") =>
       IF \E arm \in SpelledKeys : arm[1] = KeyPart
       THEN parsed.status = "Ok" /\ << KeyPart, parsed.hotkey.key >> \in SpelledKeys
       ELSE parsed = ParseErr("Unknown key", KeyPart)

C18_Witness ==
    /\ key_arg = << "C", "t", "r", "l", "+", "a" >>
    /\ parsed = ParseErr("Unknown key", << "a" >>)

C20_ErrorDoesNotCutIteration ==
    [][/\ IsFailedRead =>
             IF dev < Len(keyboards)
             THEN ppc' = "fetch" /\ dev' = dev + 1
             ELSE ppc' = "sleep"
       /\ (ppc \in {"fetch", "events"} /\ ppc' = "sleep") => dev = Len(keyboards)
       /\ (IsLoopEntry /\ keyboards' # << >>) => (ppc' = "fetch" /\ dev' = 1)
       /\ \A e \in FewEvents :
             (IsHandled(e) /\ (had_error \/ any_error)) =>
                /\ ppc' = "events"
                /\ current_mods' = TrackedMods(current_mods, e)
                /\ (e = KeyEv("KEY_F8", 1) /\ current_mods = hotkey.modifiers
                      /\ hotkey \notin show_original_hotkey) =>
                      sent' = Append(sent, "Improve")]_vars

C20_Witness ==
    /\ had_error
    /\ any_error
    /\ dev = 2
    /\ ppc = "events"
    /\ lastEv = KeyEv("KEY_F8", 1)
    /\ sent = << "Improve" >>
    /\ chan = sent

\* A step in which fetch_events returns an error that is not would-block.
IsRealReadError == IsFetchStep /\ lastRead' \in {"ENODEV", "Other"}

\* A read error has been recorded since the start or the last successful
\* rescan.
ErrorRecorded == had_error \/ any_error

\* C21: find_keyboards is called only with a read error recorded since
\* the start or the last successful rescan, and at least one cooldown
\* after the call before; an error becomes recorded only by a read that
\* fails other than with would-block; and while the listener runs its
\* devices change only in a call of find_keyboards and had_error falls
\* only in a successful one.
C21_RescanOnlyAfterError ==
    [][/\ IsEnumCall =>
             /\ had_error
             /\ errorAt >= 0
             /\ enumAt # << >> => now - enumAt[Len(enumAt)] >= RESCAN_INTERVAL
       /\ (~ErrorRecorded /\ ErrorRecorded') => IsRealReadError
       /\ (~ErrorRecorded /\ ppc' # "stopped") =>
             UNCHANGED << keyboards, nonblocking, had_error, gen >>
       /\ (keyboards' # keyboards /\ ppc' # "stopped") =>
             (IsEnumCall /\ gen' # gen)
       /\ (had_error /\ ~had_error') => (IsEnumCall /\ gen' # gen)]_vars

C21_Witness ==
    /\ gen = 2
    /\ Len(enumAt) = 2
    /\ enumAt[2] - enumAt[1] >= RESCAN_INTERVAL
    /\ ~had_error
    /\ running

\* C22: the Sender exists for as long as the listener loop runs, the loop
\* ends only with the RunningFlag false, and so recv_timeout returns
\* Disconnected only with the RunningFlag false.
C22_DisconnectedOnlyAfterShutdown ==
    /\ [](tx_alive <=> ppc # "stopped")
    /\ [](running => tx_alive)
    /\ [][/\ IsListenerExit => (ppc = "top" /\ ~running)
          /\ (IsRecvReturn /\ lastRecv' = "Disconnected") =>
                (~running /\ ppc = "stopped")
          /\ ~running => ~running']_vars

C22_Witness ==
    /\ lastRecv = "Disconnected"
    /\ ~running
    /\ ppc = "stopped"
    /\ apc = "exited"
    /\ sent = << >>
    /\ recvAfterStop = 1

\* Nothing but whitespace, or nothing at all.
IsBlank(s) == \A i \in 1..Len(s) : s[i] \in Whitespace

\* t is s without the whitespace at its two ends.
IsTrimmed(t, s) ==
    /\ t # << >> => (t[1] \notin Whitespace /\ t[Len(t)] \notin Whitespace)
    /\ \E i \in 0..Len(s) : \E j \in i..Len(s) :
          /\ t = SubSeq(s, i + 1, j)
          /\ IsBlank(SubSeq(s, 1, i))
          /\ IsBlank(SubSeq(s, j + 1, Len(s)))

\* The places of the requests in the history, and of the failed ones.
Requests == {i \in 1..Len(chat_log) : chat_log[i].ev = "request"}

FailedRequests == {i \in Requests : ~chat_log[i].ok}

\* C23: for a blank text send_chat sends no request and returns the empty
\* string; otherwise it sends at most three requests, none after one that
\* succeeded, whose trimmed content it returns; it sleeps one second after
\* a failed request exactly when another request follows; and it returns
\* the error, with the last failure as its source, exactly when three
\* requests failed.
C23_AtMostThreeAttempts ==
    /\ Cardinality(Requests) <= ATTEMPTS
    /\ IsBlank(user_text) => chat_log = << >>
    /\ \A i \in 1..Len(chat_log) :
          /\ (i \in Requests /\ chat_log[i].ok) =>
                (i = Len(chat_log) /\ cpc = "done")
          /\ chat_log[i].ev = "sleep" =>
                /\ chat_log[i].secs = 1
                /\ i - 1 \in FailedRequests
                /\ IF i < Len(chat_log)
                   THEN i + 1 \in Requests
                   ELSE cpc = "request"
          /\ (i \in FailedRequests /\ (i < Len(chat_log) \/ cpc = "request")) =>
                (i < Len(chat_log) /\ chat_log[i + 1].ev = "sleep")
    /\ cpc = "done" =>
          IF IsBlank(user_text)
          THEN chat_result = ChatOk(<< >>)
          ELSE /\ chat_log # << >>
               /\ chat_log[Len(chat_log)].ev = "request"
               /\ IF chat_log[Len(chat_log)].ok
                  THEN /\ chat_result.status = "Ok"
                       /\ IsTrimmed(chat_result.text,
                                    chat_log[Len(chat_log)].content)
                  ELSE chat_result = ChatErr(chat_log[Len(chat_log)].error)
               /\ chat_result.status # "Ok" <=>
                     Cardinality(FailedRequests) = ATTEMPTS

C23_Witness ==
    /\ cpc = "done"
    /\ Len(chat_log) = 5
    /\ chat_log[2] = Slept(1)
    /\ chat_log[4] = Slept(1)
    /\ chat_log[5] = Requested(TRUE, << " ", "a", "\n" >>, "none")
    /\ chat_result = ChatOk(<< "a" >>)

====
